---- MODULE Spec2Model ----
(***************************************************************************)
(* ThreadPool and LifeAccel of src/main.cpp as a state machine.            *)
(*                                                                         *)
(* Threads: one driver (thread 0, the caller of the public methods) and    *)
(* the pool's workers 1..nWorkers, each running ThreadPool::workerLoop.    *)
(*                                                                         *)
(* Granularity.  A critical section is split exactly where another thread  *)
(* that does NOT hold the same mutex can observe or change what it reads:  *)
(*   - tasks and stop are written under qMutex only, but tasks.empty() is  *)
(*     also read under doneMutex (waitAll's predicate, line 44, and the    *)
(*     worker's check, line 70), so pop (line 63) and ++activeWorkers      *)
(*     (line 64) are two steps of the worker, and the two conjuncts of     *)
(*     "tasks.empty() && activeWorkers == 0" are two reads;                *)
(*   - acquiring a mutex is merged with the first access made under it.    *)
(* The unsynchronised read of tasks.empty() returns the value before or    *)
(* after a concurrent push/pop; the interleaving of the steps gives both.  *)
(* A chunk task computes one cell per step, reading and writing whichever  *)
(* vectors the members current/next name at that moment.                   *)
(***************************************************************************)
EXTENDS Integers, Sequences, FiniteSets, TLC

\* ---------------------------------------------------------------- bounds
MaxHW == 2          \* largest value of std::thread::hardware_concurrency()
MaxWorkers == 2     \* largest n given to ThreadPool(n)
MaxTasks == 2       \* total number of tasks ever enqueued in one run
Rows == 2           \* LifeAccel::rows of the small grids
Cols == 2           \* LifeAccel::cols of the small grids
MaxRandomize == 1   \* number of randomize calls in one run
BlockDim == 4       \* rows and cols of the grid holding the 2x2 block
GliderDim == 6      \* rows and cols of the grid holding the glider
MaxPartRows == 3    \* largest rows of the grids whose rows are partitioned
MaxChunks == 3      \* largest chunk count nThreads of the partition

VARIABLES
    hw,             \* std::thread::hardware_concurrency() of the machine
    nWorkers,       \* workers.size()
    tasks,          \* ThreadPool::tasks (front = head)
    activeWorkers,  \* ThreadPool::activeWorkers
    stop,           \* ThreadPool::stop
    qMutex,         \* set of threads holding qMutex (at most one)
    doneMutex,      \* set of threads holding doneMutex (at most one)
    wpc,            \* worker -> position in workerLoop
    job,            \* worker -> the job it popped, with the position of its loops
    dpc,            \* position of the driver thread
    caller,         \* who called enqueue/waitAll: "update" (updateParallel) or "client"
    t,              \* loop variable t of updateParallel / of the destructor's join loop
    chunk,          \* local chunk of updateParallel
    fill,           \* argument of the randomize call
    current,        \* LifeAccel::current
    next,           \* LifeAccel::next
    rows,           \* LifeAccel::rows
    cols,           \* LifeAccel::cols
    liveCount,      \* local c of getLiveCount, and the value it returns
    \* history variables (not program state)
    submitted,      \* number of tasks pushed so far; task ids are 1..submitted
    finished,       \* ids of the tasks whose body has returned
    randomized,     \* number of randomize calls so far
    startGrid,      \* value of current when the running/last updateParallel began
    callFirst,      \* value of submitted when the running/last updateParallel began
    queuedAtStop,   \* ids in the queue when the destructor set stop
    activeAtStop,   \* ids popped and not yet finished when the destructor set stop
    budget,         \* number of tasks the client submits at most in this run
    seed,           \* the grid current held when the run began
    callChunks      \* <<start, end>> of the chunk tasks pushed by the running/last updateParallel

poolVars == <<nWorkers, tasks, activeWorkers, stop, qMutex, doneMutex, wpc, job>>
driverVars == <<dpc, caller, t, chunk, fill>>
gridVars == <<current, next>>
histVars == <<submitted, finished, randomized, startGrid, callFirst, queuedAtStop, activeAtStop>>
lifeVars == <<rows, cols, liveCount>>
runVars == <<budget, seed, callChunks>>
vars == <<hw, poolVars, driverVars, gridVars, histVars, lifeVars, runVars>>

\* ---------------------------------------------------------------- data
RowIdx == 0 .. (rows - 1)
ColIdx == 0 .. (cols - 1)
Grids == [RowIdx -> [ColIdx -> {0, 1}]]
AllDead == [r \in RowIdx |-> [c \in ColIdx |-> 0]]
Workers == 1 .. nWorkers
NoJob == [id |-> 0, kind |-> "none", start |-> 0, end |-> 0, i |-> 0, j |-> 0]

\* fill probabilities and the values of dist(rng), in tenths: dist is uniform on [0,1)
FillValues == {0 - 1, 0, 3, 10, 15}
Draws == 0 .. 9

\* countNeighbors, lines 144-146: the term one (dx, dy) adds to c
neighborTerm(g, x, y, dx, dy) ==
    LET nx == x + dx
        ny == y + dy
    IN IF nx >= 0 /\ nx < rows /\ ny >= 0 /\ ny < cols THEN g[nx][ny] ELSE 0

\* LifeAccel::countNeighbors, lines 139-149: the two loops over dx, dy in -1..1,
\* skipping dx == 0 && dy == 0, written out
countNeighbors(g, x, y) ==
      neighborTerm(g, x, y, 0 - 1, 0 - 1) + neighborTerm(g, x, y, 0 - 1, 0)
    + neighborTerm(g, x, y, 0 - 1, 1) + neighborTerm(g, x, y, 0, 0 - 1)
    + neighborTerm(g, x, y, 0, 1) + neighborTerm(g, x, y, 1, 0 - 1)
    + neighborTerm(g, x, y, 1, 0) + neighborTerm(g, x, y, 1, 1)

\* the value stored by line 107: current[i][j] ? (n == 2 || n == 3) : (n == 3)
cellRule(alive, n) ==
    IF alive # 0 THEN (IF n = 2 \/ n = 3 THEN 1 ELSE 0) ELSE (IF n = 3 THEN 1 ELSE 0)

\* line 101 of updateParallel: start
chunkStart(tt, ch) == tt * ch

\* mutant of chunkEnd: the last chunk does not absorb the remainder
chunkEndNoRemainder(tt, ch, nThreads) == chunkStart(tt, ch) + ch

\* line 102 of updateParallel: end
chunkEnd(tt, ch, nThreads) == IF tt = nThreads - 1 THEN rows ELSE chunkStart(tt, ch) + ch

\* the lambda enqueued by line 103, with its captured start and end
chunkTask(id, tt, ch, nThreads) ==
    [id |-> id, kind |-> "chunk", start |-> chunkStart(tt, ch),
     end |-> chunkEnd(tt, ch, nThreads), i |-> 0, j |-> 0]
\* a job given to enqueue by another caller: its body touches no pool or grid state
opaqueTask(id) == [id |-> id, kind |-> "opaque", start |-> 0, end |-> 0, i |-> 0, j |-> 0]

\* the grid a LifeAccel is constructed with, lines 85-86: r rows of k cells, all 0
deadGrid(r, k) == [x \in 0 .. (r - 1) |-> [y \in 0 .. (k - 1) |-> 0]]

\* what a run starts from: the machine's hardware_concurrency(), the dimensions
\* h / c and w / c of the LifeAccel (line 84), the grid in current, and the number
\* of tasks the client will submit
setup(h, r, k, g, b) == [hw |-> h, rows |-> r, cols |-> k, grid |-> g, budget |-> b]

\* the small grid as constructed, on every machine
StdSetups == {setup(h, Rows, Cols, deadGrid(Rows, Cols), MaxTasks) : h \in 0 .. MaxHW}

\* the state after construction of the LifeAccel, before the pool's threads exist
InitWith(S) ==
    \E s \in S :
        /\ hw = s.hw
        /\ rows = s.rows
        /\ cols = s.cols
        /\ budget = s.budget
        /\ current = s.grid
        /\ seed = s.grid
        /\ next = deadGrid(s.rows, s.cols)
        /\ startGrid = deadGrid(s.rows, s.cols)
        /\ nWorkers = 0
        /\ tasks = <<>>
        /\ activeWorkers = 0
        /\ stop = FALSE
        /\ qMutex = {}
        /\ doneMutex = {}
        /\ wpc = <<>>
        /\ job = <<>>
        /\ dpc = "new"
        /\ caller = "client"
        /\ t = 0
        /\ chunk = 0
        /\ fill = 0
        /\ liveCount = 0
        /\ submitted = 0
        /\ finished = {}
        /\ randomized = 0
        /\ callFirst = 0
        /\ callChunks = <<>>
        /\ queuedAtStop = {}
        /\ activeAtStop = {}

Init == InitWith(StdSetups)


\* ------------------------------------------------------------ ThreadPool
\* the driver is between two calls of the public interface
ClientReady == dpc \in {"idle", "updated", "waitRet"} /\ caller = "client"

\* ThreadPool::ThreadPool(n): no check of n; spawns n threads entering workerLoop
Construct(n) ==
    /\ dpc = "new"
    /\ nWorkers' = n
    /\ wpc' = [w \in 1 .. n |-> "lock"]
    /\ job' = [w \in 1 .. n |-> NoJob]
    /\ dpc' = "idle"
    /\ UNCHANGED <<lifeVars, runVars>>
    /\ UNCHANGED <<hw, tasks, activeWorkers, stop, qMutex, doneMutex, caller, t, chunk,
                   fill, gridVars, histVars>>

\* a caller other than updateParallel calls pool.enqueue(job)
EnqueueCall ==
    /\ ClientReady
    /\ submitted < budget
    /\ dpc' = "push"
    /\ UNCHANGED <<lifeVars, runVars>>
    /\ UNCHANGED <<hw, poolVars, caller, t, chunk, fill, gridVars, histVars>>

\* enqueue, lines 36-39: lock qMutex; tasks.push(job); unlock
EnqueuePush ==
    /\ dpc = "push"
    /\ qMutex = {}
    /\ LET id == submitted + 1
           jb == IF caller = "update" THEN chunkTask(id, t, chunk, hw) ELSE opaqueTask(id)
       IN tasks' = Append(tasks, jb)
    /\ submitted' = submitted + 1
    /\ callChunks' = IF caller = "update"
                      THEN Append(callChunks, <<chunkStart(t, chunk), chunkEnd(t, chunk, hw)>>)
                      ELSE callChunks
    /\ dpc' = "notify"
    /\ UNCHANGED <<lifeVars, budget, seed>>
    /\ UNCHANGED <<hw, nWorkers, activeWorkers, stop, qMutex, doneMutex, wpc, job, caller,
                   t, chunk, fill, gridVars, finished, randomized, startGrid, callFirst,
                   queuedAtStop, activeAtStop>>

\* where enqueue returns to: the loop of updateParallel (line 100) or the client
afterEnqueue(tt) ==
    IF caller = "client" THEN "idle" ELSE IF tt + 1 < hw THEN "push" ELSE "wait"

\* mutant of EnqueueNotify: enqueue without cond.notify_one()
EnqueueNoNotify ==
    /\ dpc = "notify"
    /\ dpc' = afterEnqueue(t)
    /\ t' = IF caller = "update" THEN t + 1 ELSE t
    /\ UNCHANGED <<lifeVars, runVars>>
    /\ UNCHANGED <<hw, poolVars, caller, chunk, fill, gridVars, histVars>>

\* enqueue, line 40: cond.notify_one() wakes one worker blocked in cond.wait, if any;
\* then the return to the caller (in updateParallel: ++t and the loop test)
EnqueueNotify ==
    /\ dpc = "notify"
    /\ \/ \E w \in Workers : wpc[w] = "waiting" /\ wpc' = [wpc EXCEPT ![w] = "lock"]
       \/ (\A w \in Workers : wpc[w] # "waiting") /\ wpc' = wpc
    /\ dpc' = afterEnqueue(t)
    /\ t' = IF caller = "update" THEN t + 1 ELSE t
    /\ UNCHANGED <<lifeVars, runVars>>
    /\ UNCHANGED <<hw, nWorkers, tasks, activeWorkers, stop, qMutex, doneMutex, job, caller,
                   chunk, fill, gridVars, histVars>>

\* a caller other than updateParallel calls pool.waitAll()
WaitAllCall ==
    /\ ClientReady
    /\ dpc' = "wait"
    /\ UNCHANGED <<lifeVars, runVars>>
    /\ UNCHANGED <<hw, poolVars, caller, t, chunk, fill, gridVars, histVars>>

\* mutant of WaitCheckEmpty: doneCond.wait(lock) without the predicate
WaitNoPredicate ==
    /\ dpc = "wait"
    /\ doneMutex = {}
    /\ dpc' = "waitBlocked"
    /\ UNCHANGED <<lifeVars, runVars>>
    /\ UNCHANGED <<hw, poolVars, caller, t, chunk, fill, gridVars, histVars>>

\* waitAll, lines 43-44: lock doneMutex; first conjunct of the predicate,
\* tasks.empty(); false: doneCond.wait releases doneMutex and blocks
WaitCheckEmpty ==
    /\ dpc = "wait"
    /\ doneMutex = {}
    /\ IF tasks = <<>>
       THEN dpc' = "waitChk" /\ doneMutex' = {0}
       ELSE dpc' = "waitBlocked" /\ doneMutex' = {}
    /\ UNCHANGED <<lifeVars, runVars>>
    /\ UNCHANGED <<hw, nWorkers, tasks, activeWorkers, stop, qMutex, wpc, job, caller, t,
                   chunk, fill, gridVars, histVars>>

\* waitAll, line 44-45: second conjunct, activeWorkers == 0; true: return (unlock);
\* false: doneCond.wait releases doneMutex and blocks
WaitCheckActive ==
    /\ dpc = "waitChk"
    /\ dpc' = IF activeWorkers = 0 THEN "waitRet" ELSE "waitBlocked"
    /\ doneMutex' = {}
    /\ UNCHANGED <<lifeVars, runVars>>
    /\ UNCHANGED <<hw, nWorkers, tasks, activeWorkers, stop, qMutex, wpc, job, caller, t,
                   chunk, fill, gridVars, histVars>>

\* condition_variable::wait may return without a notification; the predicate is re-evaluated
WaitSpurious ==
    /\ dpc = "waitBlocked"
    /\ dpc' = "wait"
    /\ UNCHANGED <<lifeVars, runVars>>
    /\ UNCHANGED <<hw, poolVars, caller, t, chunk, fill, gridVars, histVars>>

\* ids of the jobs that workers have popped and whose body has not returned
HeldIds == {job[w].id : w \in {v \in Workers : wpc[v] \in {"popped", "run"}}}
QueuedIds == {tasks[k].id : k \in 1 .. Len(tasks)}

\* ~ThreadPool, lines 28-31: lock qMutex; stop = true; unlock
DtorStop ==
    /\ ClientReady
    /\ qMutex = {}
    /\ stop' = TRUE
    /\ dpc' = "dtorNotify"
    /\ queuedAtStop' = QueuedIds
    /\ activeAtStop' = HeldIds
    /\ UNCHANGED <<lifeVars, runVars>>
    /\ UNCHANGED <<hw, nWorkers, tasks, activeWorkers, qMutex, doneMutex, wpc, job, caller,
                   t, chunk, fill, gridVars, submitted, finished, randomized, startGrid,
                   callFirst>>

\* mutant of DtorNotifyAll: the destructor without cond.notify_all()
DtorNoNotify ==
    /\ dpc = "dtorNotify"
    /\ t' = 1
    /\ dpc' = IF nWorkers = 0 THEN "destroyed" ELSE "join"
    /\ UNCHANGED <<lifeVars, runVars>>
    /\ UNCHANGED <<hw, poolVars, caller, chunk, fill, gridVars, histVars>>

\* ~ThreadPool, line 32: cond.notify_all(); then the join loop starts at workers[0]
DtorNotifyAll ==
    /\ dpc = "dtorNotify"
    /\ wpc' = [w \in Workers |-> IF wpc[w] = "waiting" THEN "lock" ELSE wpc[w]]
    /\ t' = 1
    /\ dpc' = IF nWorkers = 0 THEN "destroyed" ELSE "join"
    /\ UNCHANGED <<lifeVars, runVars>>
    /\ UNCHANGED <<hw, nWorkers, tasks, activeWorkers, stop, qMutex, doneMutex, job, caller,
                   chunk, fill, gridVars, histVars>>

\* ~ThreadPool, line 33: t.join() returns once that worker has left workerLoop
DtorJoin ==
    /\ dpc = "join"
    /\ t \in Workers
    /\ wpc[t] = "exited"
    /\ t' = t + 1
    /\ dpc' = IF t + 1 > nWorkers THEN "destroyed" ELSE "join"
    /\ UNCHANGED <<lifeVars, runVars>>
    /\ UNCHANGED <<hw, poolVars, caller, chunk, fill, gridVars, histVars>>

\* ------------------------------------------------------------ workerLoop
\* worker w has been spawned, and the process has not trapped (see UpdateDivZero)
runs(w) == w \in Workers /\ dpc # "crashed"

\* the predicate of cond.wait, line 60
wakePred == stop \/ tasks # <<>>
\* mutant of exitTest: "if (stop) return;", the queue is not looked at
exitTestStopOnly == stop

\* the test of line 61
exitTest == stop /\ tasks = <<>>

\* lines 59-60: lock qMutex; predicate false: cond.wait releases qMutex and blocks
WorkerWait(w) ==
    /\ runs(w)
    /\ wpc[w] = "lock"
    /\ qMutex = {}
    /\ ~wakePred
    /\ wpc' = [wpc EXCEPT ![w] = "waiting"]
    /\ UNCHANGED <<lifeVars, runVars>>
    /\ UNCHANGED <<hw, nWorkers, tasks, activeWorkers, stop, qMutex, doneMutex, job,
                   driverVars, gridVars, histVars>>

\* cond.wait may return without a notification; the predicate is re-evaluated
WorkerSpurious(w) ==
    /\ runs(w)
    /\ wpc[w] = "waiting"
    /\ wpc' = [wpc EXCEPT ![w] = "lock"]
    /\ UNCHANGED <<lifeVars, runVars>>
    /\ UNCHANGED <<hw, nWorkers, tasks, activeWorkers, stop, qMutex, doneMutex, job,
                   driverVars, gridVars, histVars>>

\* lines 59-61: predicate true and stop && tasks.empty(): return (unlock)
WorkerExit(w) ==
    /\ runs(w)
    /\ wpc[w] = "lock"
    /\ qMutex = {}
    /\ wakePred
    /\ exitTest
    /\ wpc' = [wpc EXCEPT ![w] = "exited"]
    /\ UNCHANGED <<lifeVars, runVars>>
    /\ UNCHANGED <<hw, nWorkers, tasks, activeWorkers, stop, qMutex, doneMutex, job,
                   driverVars, gridVars, histVars>>

\* mutant of WorkerPop: the worker takes the newest task of the queue
WorkerPopLast(w) ==
    /\ runs(w)
    /\ wpc[w] = "lock"
    /\ qMutex = {}
    /\ wakePred
    /\ ~exitTest
    /\ job' = [job EXCEPT ![w] = tasks[Len(tasks)]]
    /\ tasks' = SubSeq(tasks, 1, Len(tasks) - 1)
    /\ qMutex' = {w}
    /\ wpc' = [wpc EXCEPT ![w] = "popped"]
    /\ UNCHANGED <<lifeVars, runVars>>
    /\ UNCHANGED <<hw, nWorkers, activeWorkers, stop, doneMutex, driverVars, gridVars,
                   histVars>>

\* lines 59-63: predicate true, no return: job = move(tasks.front()); tasks.pop();
\* qMutex stays locked
WorkerPop(w) ==
    /\ runs(w)
    /\ wpc[w] = "lock"
    /\ qMutex = {}
    /\ wakePred
    /\ ~exitTest
    /\ job' = [job EXCEPT ![w] = Head(tasks)]
    /\ tasks' = Tail(tasks)
    /\ qMutex' = {w}
    /\ wpc' = [wpc EXCEPT ![w] = "popped"]
    /\ UNCHANGED <<lifeVars, runVars>>
    /\ UNCHANGED <<hw, nWorkers, activeWorkers, stop, doneMutex, driverVars, gridVars,
                   histVars>>

\* lines 64-66: ++activeWorkers; unlock qMutex; job() is entered: i = start, j = 0
WorkerInc(w) ==
    /\ runs(w)
    /\ wpc[w] = "popped"
    /\ activeWorkers' = activeWorkers + 1
    /\ qMutex' = {}
    /\ job' = [job EXCEPT ![w].i = job[w].start, ![w].j = 0]
    /\ wpc' = [wpc EXCEPT ![w] = "run"]
    /\ UNCHANGED <<lifeVars, runVars>>
    /\ UNCHANGED <<hw, nWorkers, tasks, stop, doneMutex, driverVars, gridVars, histVars>>

\* lines 104-108, one iteration of the inner loop of the lambda:
\* next[i][j] = rule(current[i][j], countNeighbors(i, j)), on the vectors that the
\* members current and next name when the iteration runs
WorkerCell(w) ==
    /\ runs(w)
    /\ wpc[w] = "run"
    /\ job[w].i < job[w].end
    /\ LET i == job[w].i
           j == job[w].j
           n == countNeighbors(current, i, j)
       IN /\ next' = [next EXCEPT ![i][j] = cellRule(current[i][j], n)]
          /\ job' = [job EXCEPT ![w].i = IF j + 1 < cols THEN i ELSE i + 1,
                                ![w].j = IF j + 1 < cols THEN j + 1 ELSE 0]
    /\ UNCHANGED <<lifeVars, runVars>>
    /\ UNCHANGED <<hw, nWorkers, tasks, activeWorkers, stop, qMutex, doneMutex, wpc,
                   driverVars, current, histVars>>

\* line 66: the outer loop of the lambda ends (i == end), job() returns
WorkerJobReturn(w) ==
    /\ runs(w)
    /\ wpc[w] = "run"
    /\ job[w].i >= job[w].end
    /\ finished' = finished \cup {job[w].id}
    /\ job' = [job EXCEPT ![w] = NoJob]
    /\ wpc' = [wpc EXCEPT ![w] = "done"]
    /\ UNCHANGED <<lifeVars, runVars>>
    /\ UNCHANGED <<hw, nWorkers, tasks, activeWorkers, stop, qMutex, doneMutex, driverVars,
                   gridVars, submitted, randomized, startGrid, callFirst, queuedAtStop,
                   activeAtStop>>

\* mutant of WorkerDec: the worker without --activeWorkers
WorkerNoDec(w) ==
    /\ runs(w)
    /\ wpc[w] = "done"
    /\ doneMutex = {}
    /\ IF tasks = <<>>
       THEN doneMutex' = {w} /\ wpc' = [wpc EXCEPT ![w] = "chk"]
       ELSE doneMutex' = {} /\ wpc' = [wpc EXCEPT ![w] = "lock"]
    /\ UNCHANGED <<lifeVars, runVars>>
    /\ UNCHANGED <<hw, nWorkers, tasks, activeWorkers, stop, qMutex, job, driverVars,
                   gridVars, histVars>>

\* lines 68-70: lock doneMutex; --activeWorkers; first conjunct tasks.empty();
\* false: unlock and loop
WorkerDec(w) ==
    /\ runs(w)
    /\ wpc[w] = "done"
    /\ doneMutex = {}
    /\ activeWorkers' = activeWorkers - 1
    /\ IF tasks = <<>>
       THEN doneMutex' = {w} /\ wpc' = [wpc EXCEPT ![w] = "chk"]
       ELSE doneMutex' = {} /\ wpc' = [wpc EXCEPT ![w] = "lock"]
    /\ UNCHANGED <<lifeVars, runVars>>
    /\ UNCHANGED <<hw, nWorkers, tasks, stop, qMutex, job, driverVars, gridVars, histVars>>

\* mutant of WorkerNotify: the worker without doneCond.notify_all()
WorkerNoNotify(w) ==
    /\ runs(w)
    /\ wpc[w] = "chk"
    /\ doneMutex' = {}
    /\ wpc' = [wpc EXCEPT ![w] = "lock"]
    /\ UNCHANGED <<lifeVars, runVars>>
    /\ UNCHANGED <<hw, nWorkers, tasks, activeWorkers, stop, qMutex, job, driverVars,
                   gridVars, histVars>>

\* lines 70-72: second conjunct activeWorkers == 0; true: doneCond.notify_all() wakes
\* the driver if it is blocked in doneCond.wait; unlock and loop
WorkerNotify(w) ==
    /\ runs(w)
    /\ wpc[w] = "chk"
    /\ dpc' = IF activeWorkers = 0 /\ dpc = "waitBlocked" THEN "wait" ELSE dpc
    /\ doneMutex' = {}
    /\ wpc' = [wpc EXCEPT ![w] = "lock"]
    /\ UNCHANGED <<lifeVars, runVars>>
    /\ UNCHANGED <<hw, nWorkers, tasks, activeWorkers, stop, qMutex, job, caller, t, chunk,
                   fill, gridVars, histVars>>


\* ------------------------------------------------------------- LifeAccel
\* a call of randomize(f)
RandomizeCall(f) ==
    /\ ClientReady
    /\ randomized < MaxRandomize
    /\ fill' = f
    /\ randomized' = randomized + 1
    /\ dpc' = "randomize"
    /\ UNCHANGED <<lifeVars, runVars>>
    /\ UNCHANGED <<hw, poolVars, caller, t, chunk, gridVars, submitted, finished,
                   startGrid, callFirst, queuedAtStop, activeAtStop>>

\* the grids randomize(f) can leave in current: each cell is dist(rng) < f ? 1 : 0
\* for its own draw of dist(rng)
randomGrids(f) ==
    {g \in Grids : \A r \in RowIdx, c \in ColIdx :
                       \E d \in Draws : g[r][c] = (IF d < f THEN 1 ELSE 0)}

\* randomize, lines 90-95: no check of fill; every cell of current is overwritten
RandomizeBody ==
    /\ dpc = "randomize"
    /\ current' \in randomGrids(fill)
    /\ fill' = 0
    /\ dpc' = "idle"
    /\ UNCHANGED <<lifeVars, runVars>>
    /\ UNCHANGED <<hw, poolVars, caller, t, chunk, next, histVars>>

\* a call of getLiveCount(), line 127: c = 0; the range-for starts at the first row
GetLiveCountCall ==
    /\ ClientReady
    /\ dpc' = "count"
    /\ t' = 0
    /\ liveCount' = 0
    /\ UNCHANGED <<hw, poolVars, caller, chunk, fill, gridVars, histVars, rows, cols, runVars>>

\* the inner loop of lines 129-130 over the first k cells of row r: c += v
RECURSIVE rowSum(_, _)
rowSum(r, k) == IF k = 0 THEN 0 ELSE rowSum(r, k - 1) + r[k - 1]

\* mutant of GetLiveCountRow: the inner loop stops one cell early
GetLiveCountRowShort ==
    /\ dpc = "count"
    /\ t < rows
    /\ liveCount' = liveCount + rowSum(current[t], cols - 1)
    /\ t' = t + 1
    /\ UNCHANGED <<hw, poolVars, dpc, caller, chunk, fill, gridVars, histVars, rows, cols,
                   runVars>>

\* getLiveCount, lines 128-130: one iteration of the outer loop, on row t of the
\* vector the member current names when the iteration runs (t is the position of
\* the range-for; c stays far below the range of int)
GetLiveCountRow ==
    /\ dpc = "count"
    /\ t < rows
    /\ liveCount' = liveCount + rowSum(current[t], cols)
    /\ t' = t + 1
    /\ UNCHANGED <<hw, poolVars, dpc, caller, chunk, fill, gridVars, histVars, rows, cols,
                   runVars>>

\* getLiveCount, line 131: the loop has ended, return c
GetLiveCountReturn ==
    /\ dpc = "count"
    /\ t >= rows
    /\ dpc' = "counted"
    /\ t' = 0
    /\ UNCHANGED <<hw, poolVars, caller, chunk, fill, gridVars, histVars, lifeVars, runVars>>

\* main, lines 349-352: the caller has taken the returned value
CountConsumed ==
    /\ dpc = "counted"
    /\ dpc' = "idle"
    /\ liveCount' = 0
    /\ UNCHANGED <<hw, poolVars, caller, t, chunk, fill, gridVars, histVars, rows, cols,
                   runVars>>

\* updateParallel, lines 98-100 with nThreads >= 1: chunk = rows / nThreads; t = 0
UpdateBegin ==
    /\ ClientReady
    /\ hw >= 1
    /\ submitted + hw <= budget
    /\ chunk' = rows \div hw
    /\ t' = 0
    /\ caller' = "update"
    /\ dpc' = "push"
    /\ startGrid' = current
    /\ callFirst' = submitted
    /\ callChunks' = <<>>
    /\ UNCHANGED <<lifeVars, budget, seed>>
    /\ UNCHANGED <<hw, poolVars, fill, gridVars, submitted, finished, randomized,
                   queuedAtStop, activeAtStop>>

\* updateParallel, lines 98-100 with nThreads == 0: rows / 0 is undefined behaviour;
\* the build either traps (the process ends) or yields some quotient, and then the
\* loop of line 100 runs no iteration and waitAll is called
UpdateDivZero ==
    /\ ClientReady
    /\ hw = 0
    /\ \/ /\ dpc' = "crashed"
          /\ UNCHANGED <<caller, t, chunk, startGrid, callFirst, callChunks>>
       \/ /\ chunk' \in 0 .. rows
          /\ t' = 0
          /\ caller' = "update"
          /\ dpc' = "wait"
          /\ startGrid' = current
          /\ callFirst' = submitted
          /\ callChunks' = <<>>
    /\ UNCHANGED <<lifeVars, budget, seed>>
    /\ UNCHANGED <<hw, poolVars, fill, gridVars, submitted, finished, randomized,
                   queuedAtStop, activeAtStop>>

\* updateParallel, line 112, after waitAll has returned: current.swap(next); return
Swap ==
    /\ dpc = "waitRet"
    /\ caller = "update"
    /\ current' = next
    /\ next' = current
    /\ dpc' = "updated"
    /\ caller' = "client"
    /\ t' = 0
    /\ chunk' = 0
    /\ UNCHANGED <<lifeVars, runVars>>
    /\ UNCHANGED <<hw, poolVars, fill, histVars>>

\* ------------------------------------------------------------------ Spec
\* the driver's steps on the pool and in updateParallel
PoolDriverStep ==
    \/ \E n \in 0 .. MaxWorkers : Construct(n)
    \/ EnqueueCall
    \/ EnqueuePush
    \/ EnqueueNotify
    \/ WaitAllCall
    \/ WaitCheckEmpty
    \/ WaitCheckActive
    \/ WaitSpurious
    \/ DtorStop
    \/ DtorNotifyAll
    \/ DtorJoin
    \/ UpdateBegin
    \/ UpdateDivZero
    \/ Swap

\* one step of worker w
WorkerStep(w) ==
    \/ WorkerWait(w)
    \/ WorkerExit(w)
    \/ WorkerPop(w)
    \/ WorkerInc(w)
    \/ WorkerCell(w)
    \/ WorkerJobReturn(w)
    \/ WorkerDec(w)
    \/ WorkerNotify(w)

\* the program whose client never calls randomize: the grid only changes by steps
PoolNext ==
    \/ PoolDriverStep
    \/ \E w \in 1 .. MaxWorkers : WorkerStep(w)
    \/ \E w \in 1 .. MaxWorkers : WorkerSpurious(w)

Next ==
    \/ PoolNext
    \/ \E f \in FillValues : RandomizeCall(f)
    \/ RandomizeBody

Spec == Init /\ [][Next]_vars

\* No guard of a pool action reads current or next, so the pool behaves the same
\* whatever the grid holds; the claims about the pool alone are checked here.
PoolSpec == Init /\ [][PoolNext]_vars

\* Scheduling: a thread that can take a step and stays able to eventually takes
\* it.  A worker about to lock doneMutex (line 69) can be shut out again and again
\* by a waiter that re-evaluates its predicate under the same mutex, so for that
\* step the stronger condition is assumed: a thread that finds the mutex free
\* again and again eventually gets it.  No fairness is assumed for spurious
\* wake-ups or for the client's choice of calls.
DriverInternal ==
    \/ EnqueuePush
    \/ EnqueueNotify
    \/ WaitCheckEmpty
    \/ WaitCheckActive
    \/ DtorNotifyAll
    \/ DtorJoin
    \/ Swap

Fairness ==
    /\ WF_vars(DriverInternal)
    /\ \A w \in 1 .. MaxWorkers : WF_vars(WorkerStep(w)) /\ SF_vars(WorkerDec(w))

\* The pool under fair scheduling is run with a LifeAccel of one cell: the pool
\* behaves the same whatever the grid holds, and a chunk task still has a body
\* that takes steps.
UnitSetups == {setup(h, 1, 1, deadGrid(1, 1), MaxTasks) : h \in 0 .. MaxHW}

FairPoolInit == InitWith(UnitSetups)
FairPoolSpec == FairPoolInit /\ [][PoolNext]_vars /\ Fairness

\* The client of main(), lines 320-357: "ThreadPool pool;" takes the default
\* n = hardware_concurrency() (line 23); then the frame loop calls updateParallel
\* and getLiveCount; leaving main destroys the pool.  The grid that
\* randomize(0.3) (line 322) left in current is drawn at the start of the run.
MainDriverStep ==
    \/ Construct(hw)
    \/ UpdateBegin
    \/ UpdateDivZero
    \/ EnqueuePush
    \/ EnqueueNotify
    \/ WaitCheckEmpty
    \/ WaitCheckActive
    \/ WaitSpurious
    \/ Swap
    \/ GetLiveCountCall
    \/ GetLiveCountRow
    \/ GetLiveCountReturn
    \/ CountConsumed
    \/ DtorStop
    \/ DtorNotifyAll
    \/ DtorJoin

MainNext ==
    \/ MainDriverStep
    \/ \E w \in 1 .. MaxWorkers : WorkerStep(w)
    \/ \E w \in 1 .. MaxWorkers : WorkerSpurious(w)

\* runs of main on the small grid, on a machine with at most one hardware thread
\* and with one step: randomize(0.3) draws every cell on its own, so it can leave
\* any grid in current
SmallSetups ==
    {setup(h, Rows, Cols, g, 1) :
        h \in 0 .. 1, g \in [0 .. (Rows - 1) -> [0 .. (Cols - 1) -> {0, 1}]]}

MainInit == InitWith(SmallSetups)
MainSpec == MainInit /\ [][MainNext]_vars

\* The loop of updateParallel that computes the row ranges, lines 98-103, for every
\* rows and every nThreads = hardware_concurrency() up to the bounds.  start and
\* end are computed by the calling thread from rows and nThreads alone, so the
\* workers are left unscheduled here.
PartitionSetups ==
    {setup(h, r, 1, deadGrid(r, 1), h) : h \in 1 .. MaxChunks, r \in 1 .. MaxPartRows}

PartitionInit == InitWith(PartitionSetups)

PartitionNext ==
    \/ \E n \in 0 .. MaxWorkers : Construct(n)
    \/ UpdateBegin
    \/ EnqueuePush
    \/ EnqueueNotify

PartitionSpec == PartitionInit /\ [][PartitionNext]_vars

\* a 2x2 block of live cells with its top-left cell at (r0, c0), on r rows of k cells
blockGrid(r, k, r0, c0) ==
    [x \in 0 .. (r - 1) |-> [y \in 0 .. (k - 1) |->
        IF x \in {r0, r0 + 1} /\ y \in {c0, c0 + 1} THEN 1 ELSE 0]]

\* the 5-cell glider with the corner of its 3x3 box at (r0, c0):
\*     . X .
\*     . . X
\*     X X X
gliderCells(r0, c0) ==
    {<<r0, c0 + 1>>, <<r0 + 1, c0 + 2>>, <<r0 + 2, c0>>, <<r0 + 2, c0 + 1>>, <<r0 + 2, c0 + 2>>}
gliderGrid(r, k, r0, c0) ==
    [x \in 0 .. (r - 1) |-> [y \in 0 .. (k - 1) |->
        IF <<x, y>> \in gliderCells(r0, c0) THEN 1 ELSE 0]]

\* runs of main on the two patterns: the block on every machine, the glider with
\* one chunk per step and four steps
PatternSetups ==
    {setup(h, BlockDim, BlockDim, blockGrid(BlockDim, BlockDim, 1, 1), MaxTasks) :
        h \in 0 .. MaxHW}
    \cup {setup(1, GliderDim, GliderDim, gliderGrid(GliderDim, GliderDim, 1, 1), 4)}

PatternInit == InitWith(PatternSetups)
PatternSpec == PatternInit /\ [][MainNext]_vars


\* --------------------------------------------------------------- claims
AllExited == \A w \in Workers : wpc[w] = "exited"
InWaitAll == dpc \in {"wait", "waitChk", "waitBlocked"}

\* C1: when waitAll returns, every task enqueued before the call has finished
\* executing (K counting tasks then waitAll: the count is K), for a pool with at
\* least one worker.
C1_BarrierOnReturn ==
    (dpc = "waitRet" /\ nWorkers >= 1) => finished = 1 .. submitted

\* the Game of Life rule stated on its own: live Moore neighbours inside the grid
liveAround(g, r, c) ==
    Cardinality({p \in RowIdx \X ColIdx :
                    /\ p # <<r, c>>
                    /\ p[1] - r \in {0 - 1, 0, 1}
                    /\ p[2] - c \in {0 - 1, 0, 1}
                    /\ g[p[1]][p[2]] = 1})
lifeStep(g) ==
    [r \in RowIdx |-> [c \in ColIdx |->
        IF \/ g[r][c] = 1 /\ liveAround(g, r, c) \in {2, 3}
           \/ g[r][c] = 0 /\ liveAround(g, r, c) = 3
        THEN 1 ELSE 0]]

\* C2: when updateParallel returns, each cell of current is alive iff in the grid
\* that was current at the call it was alive with 2 or 3 live neighbours or dead
\* with exactly 3, for every chunk count >= 1.
C2_StepResult ==
    (dpc = "updated" /\ hw >= 1) => current = lifeStep(startGrid)

\* the grid the lambda of lines 104-108 leaves in next when one chunk 0..rows runs
\* alone to its end before the swap (nThreads = 1, the worker not interleaved)
seqUpdate(g) ==
    [r \in RowIdx |-> [c \in ColIdx |-> cellRule(g[r][c], countNeighbors(g, r, c))]]

\* C3: the grid left in current by one updateParallel is the same for every number
\* of chunks and every scheduling: it is the grid the single-chunk sequential run
\* leaves.
C3_SameForEveryRun ==
    (dpc = "updated" /\ hw >= 1) => current = seqUpdate(startGrid)

\* C4: the swap of current and next happens only after every chunk task enqueued by
\* the same call has finished writing.
C4_SwapAfterChunks ==
    [][(dpc = "waitRet" /\ dpc' = "updated")
          => \A id \in (callFirst + 1) .. submitted : id \in finished]_vars

C6_ShutdownTerminates ==
    (dpc = "join") ~> (dpc = "destroyed" /\ AllExited /\ activeAtStop \subseteq finished)

C6_Witness ==
    dpc = "destroyed" /\ nWorkers >= 2 /\ activeAtStop # {} /\ AllExited

\* C7: with at least one worker, every call of waitAll eventually returns; the
\* driver never stays blocked in doneCond.wait.
C7_WaitAllReturns ==
    (InWaitAll /\ nWorkers >= 1) ~> (dpc = "waitRet")

\* the driver is blocked in doneCond.wait while the pool is already quiescent (the
\* last worker has decremented and has not notified yet)
C7_Witness ==
    dpc = "waitBlocked" /\ nWorkers >= 1 /\ tasks = <<>> /\ activeWorkers = 0

\* C8: a pool with zero workers never exists (construction with 0 is rejected).
C8_NoEmptyPool ==
    (dpc # "new") => (dpc = "InvalidArgument" \/ nWorkers >= 1)

\* C9: randomize(fill) with fill outside [0,1] raises InvalidArgument and leaves
\* current unchanged.
C9_RandomizeRejects ==
    [][(dpc = "randomize" /\ dpc' # dpc /\ fill \notin 0 .. 10)
          => (dpc' = "InvalidArgument" /\ current' = current)]_vars

\* C10: if current is all dead when updateParallel is called, current is all dead
\* when it returns.
C10_NoSpontaneousGeneration ==
    (dpc = "updated" /\ hw >= 1 /\ startGrid = AllDead) => current = AllDead

\* g holds exactly one 2x2 block of live cells, none of them on the first or last
\* row or column
isInteriorBlock(g) ==
    \E r0 \in 1 .. (rows - 3), c0 \in 1 .. (cols - 3) : g = blockGrid(rows, cols, r0, c0)

\* C11: a run that starts with current holding exactly a 2x2 block away from the
\* boundary has current equal to that same grid whenever updateParallel returns,
\* after any number of calls.
C11_StillLife ==
    (dpc = "updated" /\ hw >= 1 /\ isInteriorBlock(seed)) => current = seed

\* C12: a run that starts with the glider at (1, 1) on a grid of at least 6x6 (it
\* stays one cell away from every edge for four steps) has, when the fourth
\* updateParallel returns, exactly the glider at (2, 2) in current.  The only tasks
\* of the run are the chunk tasks, hw per call.
C12_GliderAfterFour ==
    (/\ dpc = "updated"
     /\ hw >= 1
     /\ rows >= 6
     /\ cols >= 6
     /\ seed = gliderGrid(rows, cols, 1, 1)
     /\ submitted = 4 * hw)
        => current = gliderGrid(rows, cols, 2, 2)

\* the number of alive cells of g, counted on its own
liveCells(g) == Cardinality({p \in RowIdx \X ColIdx : g[p[1]][p[2]] = 1})

\* C13: getLiveCount, called between two calls of the driver, changes neither
\* current nor next in any of its steps, and the value it returns is the number of
\* alive cells of current, for every grid (all dead and all alive included).
C13_LiveCount ==
    [][(dpc = "count" /\ (t' # t \/ dpc' # dpc))
          => /\ current' = current
             /\ next' = next
             /\ (dpc' = "counted" => liveCount' = liveCells(current'))]_vars

\* getLiveCount has returned rows * cols on a grid whose cells are all alive
C13_Witness ==
    dpc = "counted" /\ liveCount = rows * cols /\ liveCells(current) = rows * cols

\* C14: once updateParallel has pushed its nThreads chunk tasks, their ranges
\* [start, end) are contiguous from 0 to rows and pairwise disjoint, so every row
\* lies in exactly one of them; also for rows < nThreads and for rows that
\* nThreads does not divide.
C14_RowPartition ==
    (hw >= 1 /\ Len(callChunks) = hw) =>
        /\ callChunks[1][1] = 0
        /\ callChunks[hw][2] = rows
        /\ \A k \in 1 .. hw : callChunks[k][1] <= callChunks[k][2]
        /\ \A k \in 1 .. (hw - 1) : callChunks[k][2] = callChunks[k + 1][1]
        /\ \A r \in RowIdx :
              Cardinality({k \in 1 .. hw : callChunks[k][1] <= r /\ r < callChunks[k][2]}) = 1

\* all chunks of a call are pushed and nThreads does not divide rows (rows <
\* nThreads included)
C14_Witness ==
    hw >= 2 /\ Len(callChunks) = hw /\ rows % hw # 0

\* C15: every updateParallel call enqueues exactly one chunk task per worker thread
\* of the pool: when it returns, the number of chunks it pushed is the pool's worker
\* count, for every pool of at least one worker.
C15_ChunkPerWorker ==
    (dpc = "updated" /\ hw >= 1 /\ nWorkers >= 1) => Len(callChunks) = nWorkers

\* worker w is executing the body of a chunk task
executing(w) == wpc[w] = "run" /\ job[w].kind = "chunk"

\* C16: the chunk tasks that are executing at the same time write disjoint sets of
\* rows of next (every task writes next only and reads current only, so this is
\* what keeps the tasks from racing on a cell).
C16_DisjointRows ==
    \A v \in Workers, w \in Workers :
        (v # w /\ executing(v) /\ executing(w))
            => (job[v].end <= job[w].start \/ job[w].end <= job[v].start)

\* C17: tasks leave the queue in the order they were enqueued.  Ids count the
\* pushes, and submitted - Len(tasks) tasks have left the queue, so every pop must
\* take the id that follows them, and every task left behind is a later one.
C17_FifoAdmission ==
    [][\A w \in Workers :
          (wpc[w] = "lock" /\ wpc'[w] = "popped")
              => /\ job'[w].id = submitted - Len(tasks) + 1
                 /\ \A k \in 1 .. Len(tasks') : tasks'[k].id > job'[w].id]_vars

\* a worker has popped the first task while a later one is still queued
C17_Witness ==
    \E w \in Workers : wpc[w] = "popped" /\ job[w].id = 1 /\ Len(tasks) >= 1

\* no task is queued, none is held by a worker, and the counter is 0
Quiescent == tasks = <<>> /\ activeWorkers = 0 /\ HeldIds = {}

\* C18: while waitAll runs on a quiescent pool, no step makes it block in
\* doneCond.wait and no step changes the queue, the active counter or the stop
\* flag, and the pool stays quiescent up to the return; so does every further
\* waitAll call, also before any task was submitted.
C18_IdempotentWait ==
    [][(dpc \in {"wait", "waitChk"} /\ Quiescent)
          => /\ dpc' # "waitBlocked"
             /\ tasks' = tasks
             /\ activeWorkers' = activeWorkers
             /\ stop' = stop
             /\ Quiescent']_vars

\* waitAll has returned on a pool with workers to which nothing was ever submitted
C18_Witness ==
    dpc = "waitRet" /\ caller = "client" /\ Quiescent /\ submitted = 0 /\ nWorkers >= 1

\* the workers that have executed ++activeWorkers (line 64) for the task they
\* popped and not yet the matching --activeWorkers (line 69)
Counted == {w \in Workers : wpc[w] \in {"run", "done"}}

\* C19: activeWorkers is the number of workers between their increment and the
\* matching decrement; it is never negative and never above the number of worker
\* threads, and it is 0 whenever all workers are waiting.
C19_ActiveCounter ==
    /\ activeWorkers = Cardinality(Counted)
    /\ 0 <= activeWorkers
    /\ activeWorkers <= nWorkers
    /\ ((\A w \in Workers : wpc[w] = "waiting") => activeWorkers = 0)

\* every worker of a pool of at least two is executing a task
C19_Witness ==
    nWorkers >= 2 /\ activeWorkers = nWorkers /\ \A w \in Workers : wpc[w] = "run"

\* worker w has popped task id and the body of the task has not returned
holds(w, id) == wpc[w] \in {"popped", "run"} /\ job[w].id = id

\* the number of places task id is in: positions of the queue, workers holding it,
\* and the set of the executed tasks
places(id) ==
    Cardinality({k \in 1 .. Len(tasks) : tasks[k].id = id})
    + Cardinality({w \in Workers : holds(w, id)})
    + (IF id \in finished THEN 1 ELSE 0)

\* C20: every enqueued task is at any time either queued once, or held by exactly
\* one worker, or executed; it never returns to the queue, never changes worker and
\* never leaves the executed tasks, so it is popped and executed once.  And with
\* at least one worker, under fair scheduling, no task stays queued: whenever
\* tasks are queued, a moment comes at which every task submitted up to then has
\* been executed (unless the process has ended, UpdateDivZero), also when more
\* tasks are queued than there are workers.
C20_ExactlyOnce ==
    /\ [](\A id \in 1 .. submitted : places(id) = 1)
    /\ [][\A id \in 1 .. submitted :
             /\ (id \notin QueuedIds => id \notin QueuedIds')
             /\ (id \in finished => id \in finished')
             /\ \A w \in Workers : holds(w, id) => (holds(w, id)' \/ id \in finished')]_vars
    /\ (nWorkers >= 1 /\ QueuedIds # {}) ~> (finished = 1 .. submitted \/ dpc = "crashed")

\* more tasks are queued than the pool has workers, and the pool is not shut down
C20_Witness ==
    nWorkers >= 1 /\ Len(tasks) > nWorkers /\ ~stop

====
